---- MODULE Spec2Model ----
(***************************************************************************)
(* Rabbit Hole: a single collaboratively evolving sentence.                *)
(*                                                                         *)
(* The repository holds two server programs, both called server.js:        *)
(*   "ledger"    src/server.js          sentence read + validated update   *)
(*   "pipeline"  src/unnamed/part_000   sentence read + update, background *)
(*               embed/append/project task, projection read, regenerate,   *)
(*               reset                                                     *)
(* Each keeps its files under its own directory (path.join(__dirname,      *)
(* 'data', ...)), so a run of the model is a run of one of the two         *)
(* programs; `program` says which.                                         *)
(*                                                                         *)
(* Strings are sequences of one-character strings.  File-system calls on   *)
(* the data directory are taken to succeed; the embedding model and the    *)
(* PCA library are external and may fail.                                  *)
(***************************************************************************)
EXTENDS Integers, Sequences, FiniteSets, TLC

\* ----------------------------------------------------------------- bounds
\* longest request text sent to the ledger program
MaxLenLedger == 3
\* accepted updates (hence background tasks) of one run of the pipeline
MaxUpdates == 2

\* ------------------------------------------------------------ characters
Letters == {"a"}
Whitespace == {" "}
\* the class [.!?] of the regular expression /[.!?]$/
Terminal == {".", "!", "?"}
\* the characters of the request texts: a letter, a blank and one of the three
\* terminal punctuation marks
Alphabet == Letters \cup Whitespace \cup {"."}

RECURSIVE StringsUpTo(_)
StringsUpTo(n) ==
  IF n = 0 THEN {<<>>}
  ELSE LET shorter == StringsUpTo(n - 1)
       IN shorter \cup {Append(s, c) : s \in {x \in shorter : Len(x) = n - 1}, c \in Alphabet}

\* ----------------------------------------------------- string functions
\* String.prototype.trim
RECURSIVE TrimStart(_)
TrimStart(s) ==
  IF s # <<>> /\ Head(s) \in Whitespace THEN TrimStart(Tail(s)) ELSE s

RECURSIVE TrimEnd(_)
TrimEnd(s) ==
  IF s # <<>> /\ s[Len(s)] \in Whitespace THEN TrimEnd(SubSeq(s, 1, Len(s) - 1)) ELSE s

trim(s) == TrimEnd(TrimStart(s))

\* s.split(/\s+/): the pieces between maximal runs of whitespace; a string
\* that starts or ends with whitespace yields an empty first or last piece,
\* and the empty string yields one empty piece.
RECURSIVE splitFrom(_, _, _)
splitFrom(s, i, cur) ==
  IF i > Len(s) THEN <<cur>>
  ELSE IF s[i] \in Whitespace
       THEN IF i < Len(s) /\ s[i + 1] \in Whitespace
            THEN splitFrom(s, i + 1, cur)
            ELSE <<cur>> \o splitFrom(s, i + 1, <<>>)
       ELSE splitFrom(s, i + 1, Append(cur, s[i]))

split(s) == splitFrom(s, 1, <<>>)

\* .filter(Boolean) on an array of strings drops the empty ones
filterBoolean(pieces) == SelectSeq(pieces, LAMBDA w : w # <<>>)

\* const count = s => s.trim().split(/\s+/).filter(Boolean).length
count(s) == Len(filterBoolean(split(trim(s))))

\* /[.!?]$/.test(s)
endsWithPunctuation(s) == s # <<>> /\ s[Len(s)] \in Terminal

\* ------------------------------------------------------------------ state
VARIABLES
  program,          \* which server.js is running: "ledger" or "pipeline"
  SECRET,           \* process.env.WEBHOOK_SECRET || ''
  DATA_FILE,        \* data/sentence.txt
  VEC_FILE,         \* data/vectors.json
  PROJ_FILE,        \* data/vectors3d.json
  embedderPromise,  \* "null", "pending", "fulfilled" or "rejected"
  tasks,            \* the background tasks, in the order their updates were accepted
  now,              \* the clock read by new Date()
  last,             \* the request handled last and the response it was given
  overlapped        \* history: two background tasks were in progress at once

vars == <<program, SECRET, DATA_FILE, VEC_FILE, PROJ_FILE, embedderPromise, tasks, now, last, overlapped>>

\* a file: absent, or present with its content
NoFile == [exists |-> FALSE, data |-> <<>>]
File(content) == [exists |-> TRUE, data |-> content]

\* the X-Secret headers a client may send ("" is no header) and the secrets
\* an operator may configure ("" is none)
Tokens == {"", "k", "x"}
Secrets == {"", "k"}

\* request bodies: raw text or JSON with a sentence field (hasSentence), or
\* JSON without one

\* the ledger program validates the text, so it is sent every text up to
\* MaxLenLedger characters
LedgerBodies ==
  {[hasSentence |-> TRUE, sentence |-> s] : s \in StringsUpTo(MaxLenLedger)}
    \cup {[hasSentence |-> FALSE, sentence |-> <<>>]}

\* the pipeline program only trims the text and tests it for emptiness, so it
\* is sent an empty and a blank text, a text to trim and a text that ends in
\* punctuation
PipelineBodies ==
  {[hasSentence |-> TRUE, sentence |-> s] : s \in {<<>>, <<" ">>, <<" ", "a">>, <<"a", ".">>}}
    \cup {[hasSentence |-> FALSE, sentence |-> <<>>]}

\* (body.sentence || '').toString(), with a text body wrapped as {sentence: body}
sentenceOf(body) == IF body.hasSentence THEN body.sentence ELSE <<>>

\* function readSentence()
readSentence(file) == IF file.exists THEN trim(file.data) ELSE <<>>

\* function writeSentence(text)
writeSentence(text) == File(text)

\* function loadJson(file, fallback): files are written by saveJson alone, so
\* a file that exists parses to what was saved; in the mutant every read fails
loadJsonAlwaysFallsBack(file, fallback) == fallback

loadJson(file, fallback) == IF file.exists THEN file.data ELSE fallback

\* function saveJson(file, data)
saveJson(data) == File(data)

\* if (!SECRET || token !== SECRET) return 401
unauthorized(token) == SECRET = "" \/ token # SECRET

\* a response: HTTP status, the error of a JSON error body, the text of a
\* plain-text body, the array of a JSON array body, the points of {ok, points}
Response(op, token, cand, prev, status, error, text, json, points) ==
  [op |-> op, token |-> token, cand |-> cand, prev |-> prev, status |-> status,
   error |-> error, text |-> text, json |-> json, points |-> points]

NoRequest == Response("none", "", <<>>, <<>>, 0, "", <<>>, <<>>, 0)

\* --------------------------------------------------------- src/server.js
\* in this mutant the word count of the candidate is not compared with that
\* of the current sentence
ledgerVerdictWithoutCount(token, cand, prev) ==
  LET incoming == trim(cand)
  IN IF unauthorized(token) THEN "unauthorized"
     ELSE IF incoming = <<>> THEN "missing sentence"
     ELSE IF endsWithPunctuation(incoming) THEN "do not end the sentence with punctuation"
     ELSE "ok"

\* the verdict of POST /webhook/update of the ledger program on a request
\* with header `token` and candidate `cand` while the sentence is `prev`
ledgerVerdict(token, cand, prev) ==
  LET incoming == trim(cand)
  IN IF unauthorized(token) THEN "unauthorized"
     ELSE IF incoming = <<>> THEN "missing sentence"
     ELSE IF prev # <<>> /\ count(incoming) # count(prev) + 1 THEN "must append exactly one word"
     ELSE IF endsWithPunctuation(incoming) THEN "do not end the sentence with punctuation"
     ELSE "ok"

\* what data/sentence.txt holds after the handler: every rejection returns
\* before writeSentence(incoming)
persistedBeforeValidation(verdict, incoming, file) ==
  IF verdict = "unauthorized" THEN file ELSE writeSentence(incoming)

persisted(verdict, incoming, file) ==
  IF verdict = "ok" THEN writeSentence(incoming) ELSE file

\* res.status(401 or 400).json({ error }); a request without the credential
\* is answered before its body and the sentence are read
rejected(token, cand, prev, verdict) ==
  IF verdict = "unauthorized"
  THEN Response("update", token, <<>>, <<>>, 401, verdict, <<>>, <<>>, 0)
  ELSE Response("update", token, cand, prev, 400, verdict, <<>>, <<>>, 0)

\* res.send(incoming), in the mutant put off until the background work is over
sendNothingYet(token, cand, prev, incoming) ==
  Response("update", token, cand, prev, 0, "", <<>>, <<>>, 0)

sendAccepted(token, cand, prev, incoming) ==
  Response("update", token, cand, prev, 200, "", incoming, <<>>, 0)

\* app.post('/webhook/update') of src/server.js
LedgerUpdate(token, body) ==
  /\ program = "ledger"
  /\ LET cand == sentenceOf(body)
         incoming == trim(cand)
         prev == readSentence(DATA_FILE)
         verdict == ledgerVerdict(token, cand, prev)
     IN /\ DATA_FILE' = persisted(verdict, incoming, DATA_FILE)
        /\ last' = IF verdict = "ok" THEN sendAccepted(token, cand, prev, incoming)
                   ELSE rejected(token, cand, prev, verdict)
  /\ UNCHANGED <<program, SECRET, VEC_FILE, PROJ_FILE, embedderPromise, tasks, now, overlapped>>

\* app.get('/sentence'), the same in both programs
GetSentence ==
  /\ last' = Response("sentence", "", <<>>, readSentence(DATA_FILE), 200, "",
                      readSentence(DATA_FILE), <<>>, 0)
  /\ UNCHANGED <<program, SECRET, DATA_FILE, VEC_FILE, PROJ_FILE, embedderPromise, tasks, now, overlapped>>

\* app.get('/healthz'), the same in both programs
Healthz ==
  /\ last' = Response("healthz", "", <<>>, readSentence(DATA_FILE), 200, "", <<>>, <<>>, 0)
  /\ UNCHANGED <<program, SECRET, DATA_FILE, VEC_FILE, PROJ_FILE, embedderPromise, tasks, now, overlapped>>

\* ------------------------------------------------- src/unnamed/part_000
\* The embedding model is external: embed(text) is a fixed function of the
\* text.  Here a vector of two numbers computed from the characters and
\* their positions, different for different sentences of the model.
CharCode(c) == IF c \in Letters THEN 1 ELSE IF c \in Whitespace THEN 2 ELSE 3

RECURSIVE WeightedSum(_, _, _)
WeightedSum(s, i, weighted) ==
  IF i > Len(s) THEN 0
  ELSE CharCode(s[i]) * (IF weighted THEN i ELSE 1) + WeightedSum(s, i + 1, weighted)

\* Array.from((await embed(sentence, {pooling: 'mean', normalize: true})).data)
embed(sentence) == <<WeightedSum(sentence, 1, FALSE), WeightedSum(sentence, 1, TRUE)>>

RECURSIVE ColumnSum(_, _, _)
ColumnSum(vectors, i, d) ==
  IF i > Len(vectors) THEN 0 ELSE vectors[i].vec[d] + ColumnSum(vectors, i + 1, d)

\* function projectTo3D(vectors), when the PCA library does not throw.  The
\* library centres the matrix and projects every row on its top k = min(3,
\* number of eigenvalues) components; the coordinates depend on all rows.
\* Here each row is centred (times n, to stay in the integers) on the two
\* columns of the model's vectors, and the third coordinate is the zero that
\* `proj[i][2] || 0` fills in.
\* in this mutant the missing third coordinate is not filled in: xyz has the
\* k = 2 coordinates the library returned
projectTo3DWithoutFill(vectors) ==
  [i \in 1..Len(vectors) |->
     [step |-> vectors[i].step,
      t    |-> vectors[i].t,
      xyz  |-> <<Len(vectors) * vectors[i].vec[1] - ColumnSum(vectors, 1, 1),
                 Len(vectors) * vectors[i].vec[2] - ColumnSum(vectors, 1, 2)>>]]

projectTo3D(vectors) ==
  [i \in 1..Len(vectors) |->
     [step |-> vectors[i].step,
      t    |-> vectors[i].t,
      xyz  |-> <<Len(vectors) * vectors[i].vec[1] - ColumnSum(vectors, 1, 1),
                 Len(vectors) * vectors[i].vec[2] - ColumnSum(vectors, 1, 2),
                 0>>]]

\* const step = (list[list.length - 1]?.step || 0) + 1, in the mutant with
\* the index one too far: list[list.length] is undefined
nextStepPastTheEnd(list) ==
  (IF Len(list) + 1 \in DOMAIN list THEN list[Len(list) + 1].step ELSE 0) + 1

nextStep(list) == (IF list = <<>> THEN 0 ELSE list[Len(list)].step) + 1

\* the verdict of POST /webhook/update of the pipeline program
pipelineVerdict(token, cand) ==
  IF unauthorized(token) THEN "unauthorized"
  ELSE IF trim(cand) = <<>> THEN "missing sentence"
  ELSE "ok"

InProgress(task) == task.pc \in {"awaitEmbedder", "awaitEmbed"}

\* let embedderPromise; getEmbedder() starts loading the model on first use
getEmbedder(promise) == IF promise = "null" THEN "pending" ELSE promise

\* the task an accepted update starts: the async function runs to its first
\* await inside the handler (readSentence, getEmbedder), and an await on a
\* promise that is already settled continues before any other event
startTask(sentence, promise, echo, vec0, proj0) ==
  [pc       |-> CASE promise = "fulfilled" -> "awaitEmbed"
                  [] promise = "rejected"  -> "failed"
                  [] OTHER                 -> "awaitEmbedder",
   sentence |-> sentence,
   failure  |-> IF promise = "rejected" THEN "embed" ELSE "none",
   echo     |-> echo,
   reset    |-> "no",
   vec0     |-> vec0,
   proj0    |-> proj0]

\* app.post('/webhook/update') of src/unnamed/part_000
Update(token, body) ==
  /\ program = "pipeline"
  /\ LET cand == sentenceOf(body)
         incoming == trim(cand)
         prev == readSentence(DATA_FILE)
         verdict == pipelineVerdict(token, cand)
     IN IF verdict = "ok"
        THEN /\ Len(tasks) < MaxUpdates
             /\ DATA_FILE' = persisted(verdict, incoming, DATA_FILE)
             /\ last' = sendAccepted(token, cand, prev, incoming)
             /\ embedderPromise' = getEmbedder(embedderPromise)
             /\ tasks' = Append(tasks, startTask(readSentence(DATA_FILE'), embedderPromise',
                                                  last'.text, VEC_FILE, PROJ_FILE))
             /\ now' = now + 1
             /\ overlapped' = (overlapped \/ Cardinality({i \in 1..Len(tasks') : InProgress(tasks'[i])}) > 1)
        ELSE /\ DATA_FILE' = persisted(verdict, incoming, DATA_FILE)
             /\ last' = rejected(token, cand, prev, verdict)
             /\ UNCHANGED <<embedderPromise, tasks, now, overlapped>>
  /\ UNCHANGED <<program, SECRET, VEC_FILE, PROJ_FILE>>

\* pipeline('feature-extraction', ...) resolves: every task waiting for the
\* embedder goes on to call embed(sentence)
EmbedderLoads ==
  /\ embedderPromise = "pending"
  /\ embedderPromise' = "fulfilled"
  /\ tasks' = [i \in 1..Len(tasks) |->
                 IF tasks[i].pc = "awaitEmbedder" THEN [tasks[i] EXCEPT !.pc = "awaitEmbed"]
                 ELSE tasks[i]]
  /\ UNCHANGED <<program, SECRET, DATA_FILE, VEC_FILE, PROJ_FILE, now, last, overlapped>>

\* pipeline('feature-extraction', ...) rejects: every task waiting for the
\* embedder ends in its catch block, and the rejected promise is kept
EmbedderFails ==
  /\ embedderPromise = "pending"
  /\ embedderPromise' = "rejected"
  /\ tasks' = [i \in 1..Len(tasks) |->
                 IF tasks[i].pc = "awaitEmbedder"
                 THEN [tasks[i] EXCEPT !.pc = "failed", !.failure = "embed"]
                 ELSE tasks[i]]
  /\ UNCHANGED <<program, SECRET, DATA_FILE, VEC_FILE, PROJ_FILE, now, last, overlapped>>

\* embed(sentence, ...) rejects: the task ends in its catch block
EmbedRejects(i) ==
  /\ i \in 1..Len(tasks)
  /\ tasks[i].pc = "awaitEmbed"
  /\ tasks' = [tasks EXCEPT ![i].pc = "failed", ![i].failure = "embed"]
  /\ UNCHANGED <<program, SECRET, DATA_FILE, VEC_FILE, PROJ_FILE, embedderPromise, now, last, overlapped>>

\* const proj = projectTo3D(list); saveJson(PROJ_FILE, proj): a throw of
\* projectTo3D skips the save; in the mutant an empty result is saved instead
projectedOrEmptied(saved, pcaThrows, file) ==
  IF pcaThrows THEN saveJson(<<>>) ELSE saveJson(projectTo3D(saved))

\* in this mutant the points computed before the throw are saved
projectedPartially(saved, pcaThrows, file) ==
  IF pcaThrows THEN saveJson(projectTo3D(SubSeq(saved, 1, Len(saved) - 1)))
  ELSE saveJson(projectTo3D(saved))

\* in this mutant the projection is computed from the list as it was before
\* the push
projectedBeforeThePush(saved, pcaThrows, file) ==
  IF pcaThrows THEN file
  ELSE saveJson(projectTo3D(SubSeq(saved, 1, Len(saved) - 1)))

projected(saved, pcaThrows, file) ==
  IF pcaThrows THEN file ELSE saveJson(projectTo3D(saved))

\* in this mutant the task reads the sentence after the awaits, not before:
\* the vector is that of the sentence current when the embedding settles
EmbedResolvesOfTheCurrentSentence(i, pcaThrows) ==
  /\ i \in 1..Len(tasks)
  /\ tasks[i].pc = "awaitEmbed"
  /\ LET vec  == embed(readSentence(DATA_FILE))
         list == loadJson(VEC_FILE, <<>>)
         row  == [step |-> nextStep(list), t |-> now, vec |-> vec]
         saved == Append(list, row)
     IN /\ VEC_FILE' = saveJson(saved)
        /\ PROJ_FILE' = projected(saved, pcaThrows, PROJ_FILE)
        /\ tasks' = IF pcaThrows
                    THEN [tasks EXCEPT ![i].pc = "failed", ![i].failure = "project"]
                    ELSE [tasks EXCEPT ![i].pc = "done"]
  /\ now' = now + 1
  /\ UNCHANGED <<program, SECRET, DATA_FILE, embedderPromise, last, overlapped>>

\* embed(sentence, ...) resolves: the rest of the task (load, push, save,
\* project, save) runs without another await; projectTo3D may throw after
\* the vector history was saved
EmbedResolves(i, pcaThrows) ==
  /\ i \in 1..Len(tasks)
  /\ tasks[i].pc = "awaitEmbed"
  /\ LET vec  == embed(tasks[i].sentence)
         list == loadJson(VEC_FILE, <<>>)
         row  == [step |-> nextStep(list), t |-> now, vec |-> vec]
         saved == Append(list, row)
     IN /\ VEC_FILE' = saveJson(saved)
        /\ PROJ_FILE' = projected(saved, pcaThrows, PROJ_FILE)
        /\ tasks' = IF pcaThrows
                    THEN [tasks EXCEPT ![i].pc = "failed", ![i].failure = "project"]
                    ELSE [tasks EXCEPT ![i].pc = "done"]
  /\ now' = now + 1
  /\ UNCHANGED <<program, SECRET, DATA_FILE, embedderPromise, last, overlapped>>

\* app.get('/vectors3d')
GetVectors3d ==
  /\ program = "pipeline"
  /\ last' = Response("vectors3d", "", <<>>, readSentence(DATA_FILE), 200, "", <<>>,
                      loadJson(PROJ_FILE, <<>>), 0)
  /\ UNCHANGED <<program, SECRET, DATA_FILE, VEC_FILE, PROJ_FILE, embedderPromise, tasks, now, overlapped>>

\* app.get('/regenerate'), in the mutant without saveJson(PROJ_FILE, points)
RegenerateWithoutSave(pcaThrows) ==
  /\ program = "pipeline"
  /\ LET list == loadJson(VEC_FILE, <<>>)
         prev == readSentence(DATA_FILE)
     IN IF list = <<>>
        THEN /\ ~pcaThrows
             /\ last' = Response("regenerate", "", <<>>, prev, 200, "no vectors to project", <<>>, <<>>, 0)
        ELSE IF pcaThrows
        THEN last' = Response("regenerate", "", <<>>, prev, 500, "e.message", <<>>, <<>>, 0)
        ELSE last' = Response("regenerate", "", <<>>, prev, 200, "", <<>>, <<>>, Len(projectTo3D(list)))
  /\ UNCHANGED <<program, SECRET, DATA_FILE, VEC_FILE, PROJ_FILE, embedderPromise, tasks, now, overlapped>>

\* app.get('/regenerate')
Regenerate(pcaThrows) ==
  /\ program = "pipeline"
  /\ LET list == loadJson(VEC_FILE, <<>>)
         prev == readSentence(DATA_FILE)
     IN IF list = <<>>
        THEN /\ ~pcaThrows
             /\ last' = Response("regenerate", "", <<>>, prev, 200, "no vectors to project", <<>>, <<>>, 0)
             /\ PROJ_FILE' = PROJ_FILE
        ELSE IF pcaThrows
        THEN /\ last' = Response("regenerate", "", <<>>, prev, 500, "e.message", <<>>, <<>>, 0)
             /\ PROJ_FILE' = PROJ_FILE
        ELSE /\ PROJ_FILE' = saveJson(projectTo3D(list))
             /\ last' = Response("regenerate", "", <<>>, prev, 200, "", <<>>, <<>>, Len(projectTo3D(list)))
  /\ UNCHANGED <<program, SECRET, DATA_FILE, VEC_FILE, embedderPromise, tasks, now, overlapped>>

\* app.post('/reset'); the background tasks are not cancelled.  Each task
\* remembers whether a reset came while it was in progress or after it ended.
Reset(token) ==
  /\ program = "pipeline"
  /\ IF unauthorized(token)
     THEN /\ last' = Response("reset", token, <<>>, readSentence(DATA_FILE), 401, "unauthorized", <<>>, <<>>, 0)
          /\ UNCHANGED <<DATA_FILE, VEC_FILE, PROJ_FILE, tasks>>
     ELSE /\ DATA_FILE' = NoFile
          /\ VEC_FILE' = NoFile
          /\ PROJ_FILE' = NoFile
          /\ last' = Response("reset", token, <<>>, readSentence(DATA_FILE), 200, "", <<>>, <<>>, 0)
          /\ tasks' = [i \in 1..Len(tasks) |->
                         [tasks[i] EXCEPT !.reset = IF InProgress(tasks[i]) \/ @ = "during"
                                                    THEN "during" ELSE "after"]]
  /\ UNCHANGED <<program, SECRET, embedderPromise, now, overlapped>>

\* ---------------------------------------------------------- specifications
Init ==
  /\ program \in {"ledger", "pipeline"}
  /\ SECRET \in Secrets
  /\ DATA_FILE = NoFile
  /\ VEC_FILE = NoFile
  /\ PROJ_FILE = NoFile
  /\ embedderPromise = "null"
  /\ tasks = <<>>
  /\ now = 0
  /\ last = NoRequest
  /\ overlapped = FALSE

NextLedger ==
  \/ \E token \in Tokens, body \in LedgerBodies : LedgerUpdate(token, body)
  \/ GetSentence
  \/ Healthz

NextPipeline ==
  \/ \E token \in Tokens, body \in PipelineBodies : Update(token, body)
  \/ GetSentence
  \/ Healthz
  \/ GetVectors3d
  \/ \E pcaThrows \in BOOLEAN : Regenerate(pcaThrows)
  \/ \E token \in Tokens : Reset(token)
  \/ EmbedderLoads
  \/ EmbedderFails
  \/ \E i \in 1..Len(tasks) : EmbedRejects(i)
  \/ \E i \in 1..Len(tasks), pcaThrows \in BOOLEAN : EmbedResolves(i, pcaThrows)

\* either program
Next ==
  \/ \E token \in Tokens, body \in LedgerBodies : LedgerUpdate(token, body)
  \/ \E token \in Tokens, body \in PipelineBodies : Update(token, body)
  \/ GetSentence
  \/ Healthz
  \/ GetVectors3d
  \/ \E pcaThrows \in BOOLEAN : Regenerate(pcaThrows)
  \/ \E token \in Tokens : Reset(token)
  \/ EmbedderLoads
  \/ EmbedderFails
  \/ \E i \in 1..Len(tasks) : EmbedRejects(i)
  \/ \E i \in 1..Len(tasks), pcaThrows \in BOOLEAN : EmbedResolves(i, pcaThrows)

Spec == Init /\ [][Next]_vars

\* the program of src/server.js alone
InitLedger == Init /\ program = "ledger"
SpecLedger == InitLedger /\ [][NextLedger]_vars

\* the program of src/unnamed/part_000 alone
InitPipeline == Init /\ program = "pipeline"
SpecPipeline == InitPipeline /\ [][NextPipeline]_vars

\* the same, with every promise of a background task settled in the end: the
\* model load, and each task's embedding, resolves or rejects
SpecPipelineFair ==
  /\ SpecPipeline
  /\ WF_vars(EmbedderLoads \/ EmbedderFails)
  /\ \A i \in 1..MaxUpdates :
       WF_vars(EmbedRejects(i) \/ \E pcaThrows \in BOOLEAN : EmbedResolves(i, pcaThrows))

\* ======================================================================
\* The claims.  What a claim says of words and punctuation is stated here
\* on its own terms, not with the operators that model the code.
\* ======================================================================

\* the words of a text: its maximal runs of characters that are not whitespace
RECURSIVE WordsOf(_)
WordsOf(s) ==
  IF s = <<>> THEN <<>>
  ELSE IF Head(s) \in Whitespace THEN WordsOf(Tail(s))
  ELSE LET stops == {k \in 1..Len(s) : s[k] \in Whitespace}
           n == IF stops = {} THEN Len(s)
                ELSE (CHOOSE k \in stops : \A j \in stops : k <= j) - 1
       IN <<SubSeq(s, 1, n)>> \o WordsOf(SubSeq(s, n + 1, Len(s)))

WordCount(s) == Len(WordsOf(s))

\* the text has a character that is not whitespace
NonBlank(s) == \E k \in 1..Len(s) : s[k] \notin Whitespace

\* the last character that is not whitespace is '.', '!' or '?'
EndsInTerminal(s) ==
  \E k \in 1..Len(s) :
    /\ s[k] \in {".", "!", "?"}
    /\ \A j \in (k + 1)..Len(s) : s[j] \in Whitespace

Authorized(token) == SECRET # "" /\ token = SECRET

Accepted == last.op = "update" /\ last.status = 200

\* what the three files hold; a file that does not exist holds nothing
Sentence == IF DATA_FILE.exists THEN DATA_FILE.data ELSE <<>>
Vectors == IF VEC_FILE.exists THEN VEC_FILE.data ELSE <<>>
Projection == IF PROJ_FILE.exists THEN PROJ_FILE.data ELSE <<>>

\* C1: an authorized update of a non-empty sentence S with candidate C is
\* accepted if and only if C is not blank, C has one word more than S, and C
\* does not end in '.', '!' or '?'.
C1_AcceptedIffOneMoreWord ==
  (last.op = "update" /\ Authorized(last.token) /\ last.prev # <<>>)
    => (Accepted <=> /\ NonBlank(last.cand)
                     /\ WordCount(last.cand) = WordCount(last.prev) + 1
                     /\ ~EndsInTerminal(last.cand))

\* C1 for the program of src/server.js alone (holds under SpecLedger)
C1_LedgerAcceptedIffOneMoreWord ==
  program = "ledger" => C1_AcceptedIffOneMoreWord

\* C2: an authorized update of the empty sentence is accepted if and only if
\* the candidate is not blank and does not end in '.', '!' or '?', whatever
\* its word count.
C2_Bootstrap ==
  (last.op = "update" /\ Authorized(last.token) /\ last.prev = <<>>)
    => (Accepted <=> (NonBlank(last.cand) /\ ~EndsInTerminal(last.cand)))

\* C2 for the program of src/server.js alone (holds under SpecLedger)
C2_LedgerBootstrap ==
  program = "ledger" => C2_Bootstrap

\* C3: an accepted update of a non-empty sentence leaves the words of the
\* previous sentence in place and adds one word after them, and the current
\* sentence never ends in '.', '!' or '?'.
C3_AppendsOneWord ==
  /\ (Accepted /\ last.prev # <<>>)
       => /\ WordCount(last.text) = WordCount(last.prev) + 1
          /\ SubSeq(WordsOf(last.text), 1, WordCount(last.prev)) = WordsOf(last.prev)
  /\ ~EndsInTerminal(Sentence)

\* the part of C3 that the program of src/server.js keeps (holds under
\* SpecLedger): one word more, and no terminal punctuation
C3_LedgerOneMoreWord ==
  /\ (Accepted /\ last.prev # <<>>) => WordCount(last.text) = WordCount(last.prev) + 1
  /\ ~EndsInTerminal(Sentence)

\* C4: a step that handles an update or a reset and rejects it (401 or 400)
\* leaves the sentence, the vector history and the projection as they were
\* and starts no background task.
C4_RejectionChangesNothing ==
  [][(last' # last /\ last'.op \in {"update", "reset"} /\ last'.status \in {400, 401})
       => UNCHANGED <<DATA_FILE, VEC_FILE, PROJ_FILE, tasks, embedderPromise>>]_vars

\* a reset with a wrong credential was rejected while the store was populated
\* and a background task was in progress
C4_Witness ==
  /\ last.op = "reset" /\ last.status = 401 /\ last.token = "x" /\ SECRET = "k"
  /\ Sentence # <<>> /\ Vectors # <<>> /\ Projection # <<>>
  /\ \E i \in 1..Len(tasks) : InProgress(tasks[i])

\* an update of a non-empty sentence was rejected for its word count
C4_WitnessWordCount ==
  /\ last.op = "update" /\ last.error = "must append exactly one word"
  /\ Sentence # <<>>

NumberInProgress == Cardinality({i \in 1..Len(tasks) : InProgress(tasks[i])})

\* C5: when the background tasks ran one at a time, the steps of the vector
\* history are 1, 2, ..., n in storage order.
C5_StepsAreOneToN ==
  ~overlapped => \A k \in 1..Len(Vectors) : Vectors[k].step = k

\* two updates were handled one after the other and the history has two records
C5_Witness ==
  ~overlapped /\ Len(Vectors) >= 2 /\ NumberInProgress = 0

\* C6: at most one background task is in progress.
C6_AtMostOneInProgress == NumberInProgress <= 1

\* C7: the step that accepts an update persists the sentence and sends it as
\* the response while the embedding, the append and the projection of that
\* update are still to come; no later step of a background task touches the
\* response.
C7_ResponseBeforeBackgroundWork ==
  [][/\ Len(tasks') > Len(tasks)
          => LET task == tasks'[Len(tasks')]
             IN /\ last'.op = "update" /\ last'.status = 200
                /\ last'.text = task.sentence
                /\ task.echo = task.sentence
                /\ DATA_FILE'.exists /\ DATA_FILE'.data = task.sentence
                /\ task.pc # "done"
                /\ VEC_FILE' = VEC_FILE /\ PROJ_FILE' = PROJ_FILE
     /\ \A i \in 1..Len(tasks) :
          tasks'[i].pc # tasks[i].pc => (last' = last /\ tasks'[i].echo = tasks[i].echo)]_vars

\* a task has appended its vector and projected after its update's response,
\* which was followed by the response to another request
C7_Witness ==
  /\ \E i \in 1..Len(tasks) : tasks[i].pc = "done" /\ tasks[i].echo = tasks[i].sentence
  /\ Vectors # <<>> /\ Projection # <<>>
  /\ last.op = "sentence"

\* the tasks of updates accepted since the last reset
Current == {i \in 1..Len(tasks) : tasks[i].reset = "no"}

\* no task failed since the last reset and no reset came while a task was in
\* progress
Undisturbed ==
  \A i \in 1..Len(tasks) :
    /\ tasks[i].reset # "during"
    /\ tasks[i].reset = "no" => tasks[i].pc # "failed"

\* C8: every background task ends, and once none is in progress then, if
\* none failed and no reset came in between, the vector history has one record
\* for each update accepted since the last reset and the projection is the
\* projection of that history.
C8_EveryUpdateGetsItsVector ==
  /\ [](NumberInProgress = 0 /\ Undisturbed
          => /\ Len(Vectors) = Cardinality(Current)
             /\ Len(Projection) = Len(Vectors)
             /\ \A k \in 1..Len(Vectors) : Projection[k].step = Vectors[k].step)
  /\ \A i \in 1..MaxUpdates :
       (i <= Len(tasks) /\ InProgress(tasks[i])) ~> (i <= Len(tasks) /\ ~InProgress(tasks[i]))

\* two updates were accepted, both tasks are done, and the history has two records
C8_Witness ==
  /\ NumberInProgress = 0 /\ Undisturbed
  /\ Cardinality(Current) = 2 /\ Len(Vectors) = 2 /\ Len(Projection) = 2

\* C9: the step in which a background task fails at embedding leaves the
\* vector history and the projection as they were; the step in which it fails
\* at projection leaves the projection as it was; either way the accepted
\* sentence and the response are not touched.
C9_FailureLeavesNoPartialResult ==
  [][/\ \A i \in 1..Len(tasks) :
          (tasks[i].pc # "failed" /\ tasks'[i].pc = "failed")
            => /\ PROJ_FILE' = PROJ_FILE
               /\ DATA_FILE' = DATA_FILE
               /\ last' = last
               /\ tasks'[i].failure = "embed" => VEC_FILE' = VEC_FILE
     /\ (Len(tasks') > Len(tasks) /\ tasks'[Len(tasks')].pc = "failed")
          => /\ VEC_FILE' = VEC_FILE /\ PROJ_FILE' = PROJ_FILE
             /\ DATA_FILE'.exists /\ DATA_FILE'.data = tasks'[Len(tasks')].sentence]_vars

\* a task failed at projection after an earlier one had projected: the
\* projection still has the earlier single point, the history has two records
C9_Witness ==
  /\ \E i \in 1..Len(tasks) : tasks[i].pc = "failed" /\ tasks[i].failure = "project"
  /\ \E i \in 1..Len(tasks) : tasks[i].pc = "failed" /\ tasks[i].failure = "embed"
  /\ Sentence # <<>>

\* C10 as stated: when a task fails, the vector history and the projection
\* are what they were when the task started.
C10_FailureRestoresBoth ==
  [][\A i \in 1..Len(tasks) :
       (tasks[i].pc # "failed" /\ tasks'[i].pc = "failed")
         => (VEC_FILE' = tasks[i].vec0 /\ PROJ_FILE' = tasks[i].proj0)]_vars

\* C10 as amended: the step in which a task fails at embedding changes
\* neither the vector history nor the projection; the step in which it fails
\* at projection leaves the projection as it was and adds the task's own
\* record, and nothing else, to the vector history.
C10_FailureStepWritesAtMostItsRecord ==
  [][\A i \in 1..Len(tasks) :
       (tasks[i].pc # "failed" /\ tasks'[i].pc = "failed")
         => /\ PROJ_FILE' = PROJ_FILE
            /\ tasks'[i].failure = "embed" => VEC_FILE' = VEC_FILE
            /\ tasks'[i].failure = "project"
                 => /\ VEC_FILE'.exists
                    /\ Len(VEC_FILE'.data) = Len(Vectors) + 1
                    /\ SubSeq(VEC_FILE'.data, 1, Len(Vectors)) = Vectors]_vars

\* a task has failed at projection: the history has its record, the projection has none
C10_Witness ==
  /\ \E i \in 1..Len(tasks) : tasks[i].pc = "failed" /\ tasks[i].failure = "project"
  /\ Len(Vectors) = 1 /\ Projection = <<>>

\* C11: the projector maps the vector history of every reachable state to as
\* many points as it has records (none for the empty history); the i-th point
\* carries the step and the timestamp of the i-th record, and its xyz has
\* exactly three components.
C11_ProjectorKeepsLengthStepAndTime ==
  LET out == projectTo3D(Vectors)
  IN /\ Len(out) = Len(Vectors)
     /\ Vectors = <<>> => out = <<>>
     /\ \A k \in 1..Len(Vectors) :
          /\ out[k].step = Vectors[k].step
          /\ out[k].t = Vectors[k].t
          /\ Len(out[k].xyz) = 3

\* a history of two records with different timestamps was projected and saved
C11_Witness ==
  /\ Len(Vectors) = 2 /\ Vectors[1].t # Vectors[2].t
  /\ PROJ_FILE.exists /\ PROJ_FILE.data = projectTo3D(Vectors)

\* the step of an authorized reset: the request is answered { ok: true } and
\* no background task moves
AuthorizedResetStep ==
  /\ last'.op = "reset" /\ last'.status = 200
  /\ Len(tasks') = Len(tasks)
  /\ \A i \in 1..Len(tasks) : tasks'[i].pc = tasks[i].pc

\* the part of C12 about what the reset leaves: after the step of an
\* authorized reset the sentence, the vector history and the projection are
\* empty, a sentence read returns the empty string and a projection read the
\* empty sequence.
C12_ResetLeavesNothing ==
  [][AuthorizedResetStep
       => /\ Sentence' = <<>> /\ Vectors' = <<>> /\ Projection' = <<>>
          /\ readSentence(DATA_FILE') = <<>>
          /\ loadJson(PROJ_FILE', <<>>) = <<>>]_vars

\* C12: an authorized reset leaves the sentence, the vector history and the
\* projection empty, so that a sentence read returns the empty string and a
\* projection read the empty sequence, and the next update is judged by the
\* bootstrap rule: an authorized proposal is accepted if and only if it has a
\* character that is not whitespace and does not end in '.', '!' or '?'.
C12_ResetThenBootstrap ==
  [][/\ AuthorizedResetStep
          => /\ Sentence' = <<>> /\ Vectors' = <<>> /\ Projection' = <<>>
             /\ readSentence(DATA_FILE') = <<>>
             /\ loadJson(PROJ_FILE', <<>>) = <<>>
     /\ (/\ last.op = "reset" /\ last.status = 200
         /\ last'.op = "update" /\ Authorized(last'.token))
          => (last'.status = 200
                <=> (NonBlank(last'.cand) /\ ~EndsInTerminal(last'.cand)))]_vars

\* the step of a regenerate request
RegenerateStep == last'.op = "regenerate" /\ last' # last

\* C13: a regenerate request never changes the sentence or the vector
\* history.  On a non-empty history that the projector projects it overwrites
\* the persisted projection with the projection of the whole current history
\* and reports as many points as the history has records; on an empty history
\* it reports that there is nothing to project and leaves the persisted
\* projection as it was, as it does when the projector throws.
C13_RegenerateRewritesOnlyTheProjection ==
  [][RegenerateStep
       => /\ DATA_FILE' = DATA_FILE /\ VEC_FILE' = VEC_FILE
          /\ Vectors = <<>>
               => /\ last'.error = "no vectors to project"
                  /\ PROJ_FILE' = PROJ_FILE
          /\ (Vectors # <<>> /\ last'.status = 200)
               => /\ last'.error = ""
                  /\ last'.points = Len(Vectors)
                  /\ PROJ_FILE'.exists
                  /\ PROJ_FILE'.data = projectTo3D(Vectors)
                  /\ Len(PROJ_FILE'.data) = Len(Vectors)
                  /\ \A k \in 1..Len(Vectors) :
                       PROJ_FILE'.data[k].step = Vectors[k].step
          /\ (Vectors # <<>> /\ last'.status # 200)
               => /\ last'.status = 500 /\ last'.error # ""
                  /\ PROJ_FILE' = PROJ_FILE]_vars

\* regenerate has rewritten a projection that a failed projection had left
\* one point behind the history
C13_Witness ==
  /\ last.op = "regenerate" /\ last.status = 200 /\ last.points = 2
  /\ Len(Vectors) = 2 /\ Len(Projection) = 2
  /\ \E i \in 1..Len(tasks) : tasks[i].pc = "failed" /\ tasks[i].failure = "project"
  /\ NumberInProgress = 0

\* regenerate has answered that there is nothing to project
C13_WitnessNothingToProject ==
  /\ last.op = "regenerate" /\ last.error = "no vectors to project"
  /\ Vectors = <<>>
  /\ \E i \in 1..Len(tasks) : tasks[i].pc = "awaitEmbed"

\* C14: across every step other than that of an authorized reset, the vector
\* history before the step is a prefix of the vector history after it: the
\* records it had are still there, in their places and unchanged.
C14_HistoryIsAppendOnly ==
  [][~AuthorizedResetStep
       => /\ Len(Vectors) <= Len(Vectors')
          /\ SubSeq(Vectors', 1, Len(Vectors)) = Vectors]_vars

\* a second record was appended behind the first, and regenerate has run
\* over both
C14_Witness ==
  /\ Len(Vectors) = 2
  /\ \A i \in 1..Len(tasks) : tasks[i].pc = "done"
  /\ last.op = "regenerate" /\ last.points = 2

\* the persisted projection has one point per record of the vector history,
\* with the same steps in the same order
OnePointPerRecord ==
  /\ Len(Projection) = Len(Vectors)
  /\ \A k \in 1..Len(Vectors) : Projection[k].step = Vectors[k].step

FailedAtProjection ==
  {i \in 1..Len(tasks) : tasks[i].pc = "failed" /\ tasks[i].failure = "project"}

C16_AcceptedUpdateAddsOneWordToTheStoredSentence ==
  [][IF last' # last /\ last'.op = "update" /\ last'.status = 200
     THEN /\ last'.prev = Sentence
          /\ Sentence' = last'.text
          /\ Sentence # <<>> => /\ WordCount(last'.cand) = WordCount(Sentence) + 1
                                /\ WordCount(Sentence') = WordCount(Sentence) + 1
     ELSE Sentence' = Sentence]_vars

\* of two proposals that each add one word to the same one-word sentence the
\* first was accepted and the second is rejected: it has as many words as the
\* sentence now stored
C16_Witness ==
  /\ program = "ledger"
  /\ last.op = "update" /\ last.error = "must append exactly one word"
  /\ last.prev = Sentence
  /\ WordCount(Sentence) = 2 /\ WordCount(last.cand) = 2

\* the tasks that append their record in this step
Appending ==
  {i \in 1..Len(tasks) :
     /\ tasks[i].pc = "awaitEmbed"
     /\ \/ tasks'[i].pc = "done"
        \/ tasks'[i].pc = "failed" /\ tasks'[i].failure = "project"}

\* C17: whether or not background tasks overlap and in whatever order their
\* embeddings settle, after every step the steps of the vector history are
\* exactly 1..n in order, and the step in which a task appends adds one
\* record behind all the records the history had: none is lost.
C17_OverlappingTasksKeepStepsAndRecords ==
  [][/\ \A k \in 1..Len(Vectors') : Vectors'[k].step = k
     /\ Appending # {}
          => /\ Cardinality(Appending) = 1
             /\ Len(Vectors') = Len(Vectors) + 1
             /\ SubSeq(Vectors', 1, Len(Vectors)) = Vectors]_vars

\* two tasks overlapped and the embedding of the later one settled first:
\* its record has step 1, the record of the earlier one step 2
C17_Witness ==
  /\ overlapped /\ Len(tasks) = 2 /\ Len(Vectors) = 2
  /\ tasks[1].sentence # tasks[2].sentence
  /\ Vectors[1].vec = embed(tasks[2].sentence) /\ Vectors[1].step = 1
  /\ Vectors[2].vec = embed(tasks[1].sentence) /\ Vectors[2].step = 2

\* C18: the record a background task appends holds the embedding of the
\* sentence that the update which started the task was answered with,
\* whatever the current sentence is when the embedding settles.
C18_VectorIsOfTheAcceptedSentence ==
  [][\A i \in Appending :
       /\ Vectors' # <<>>
       /\ Vectors'[Len(Vectors')].vec = embed(tasks[i].echo)]_vars

\* a second update changed the sentence while the first task was waiting for
\* its embedding; the first task has appended the vector of its own sentence
C18_Witness ==
  /\ Len(tasks) = 2 /\ overlapped
  /\ tasks[1].pc = "done" /\ tasks[2].pc = "awaitEmbed"
  /\ tasks[1].echo # tasks[2].echo /\ Sentence = tasks[2].echo
  /\ Len(Vectors) = 1 /\ Vectors[1].vec = embed(tasks[1].echo)

\* a reset emptied the sentence while the task was waiting for its embedding;
\* the task has appended the vector of its own sentence
C18_WitnessReset ==
  /\ Len(tasks) = 1 /\ tasks[1].pc = "done" /\ tasks[1].reset = "during"
  /\ Sentence = <<>>
  /\ Len(Vectors) = 1 /\ Vectors[1].vec = embed(tasks[1].echo)

\* the tasks whose record is in the vector history: they have appended and
\* no reset has come since their update was accepted
Recorded ==
  {j \in 1..Len(tasks) :
     /\ tasks[j].reset = "no"
     /\ \/ tasks[j].pc = "done"
        \/ tasks[j].pc = "failed" /\ tasks[j].failure = "project"}

\* C19: records are appended in the order in which their sentences were
\* accepted: when a task appends its record, the history holds no record of
\* a task whose update was accepted later, so that of two records the one
\* of the update accepted first has the smaller step.
C19_AppendedInOrderOfAcceptance ==
  [][\A i \in Appending : \A j \in Recorded : j < i]_vars

\* C20: after an authorized reset the vector history and the projection stay
\* empty until an update accepted after the reset has its vector appended:
\* a task that was in progress when a reset came never appends a record and
\* never writes the projection.
C20_NoRecordOfAnUpdateBeforeTheReset ==
  [][/\ \A i \in Appending : tasks[i].reset = "no"
     /\ Recorded' = {} => (Vectors' = <<>> /\ Projection' = <<>>)]_vars

====
